---- MODULE Spec2Model ----
(***************************************************************************)
(* Protection levels for nested fare classes: EMSRb and EMSRb_MR of        *)
(* pyrm/optimizers.py.                                                     *)
(*                                                                         *)
(* Numbers.  The source computes in IEEE float64.  The model keeps the     *)
(* three kinds of float that decide the control flow apart: a finite       *)
(* value, NaN and +/-infinity.  Finite values are exact integers in a      *)
(* fixed unit:                                                             *)
(*   fares                whole units                                      *)
(*   demands, sigmas      half units (1 = 0.5), so that rounding has ties  *)
(*   z_alpha              thousandths                                      *)
(*   sigma (pooled)       thousandths of a half unit                       *)
(*   y, before np.round   1 / Unit of a unit                               *)
(*   protection levels    whole units                                      *)
(* Python indices are 0-based, TLA+ sequences 1-based: class j of the      *)
(* source is element j + 1 of a sequence here.                             *)
(***************************************************************************)
EXTENDS Integers, Sequences, FiniteSets, TLC

\* Bounds of the input space.
MaxN == 3
MaxFare == 3
MaxDemand == 2
MaxSigma == 9

VARIABLES pc, fn, fares, demands, sigmas, cap,
          adjusted_fares, adjusted_demand, emsrb_calls, result

vars == <<pc, fn, fares, demands, sigmas, cap,
          adjusted_fares, adjusted_demand, emsrb_calls, result>>

-----------------------------------------------------------------------------
(* float64 values *)

Fin(v) == [k |-> "fin", v |-> v]
NaN == [k |-> "nan", v |-> 0]
PInf == [k |-> "inf", v |-> 1]
NInf == [k |-> "inf", v |-> -1]

isnan(x) == x.k = "nan"

\* An exact quotient n / d, d > 0, or NaN, or an infinity of sign n.
Rat(n, d) == [k |-> "fin", n |-> n, d |-> d]
RNaN == [k |-> "nan", n |-> 0, d |-> 1]
RInf(s) == [k |-> "inf", n |-> s, d |-> 1]

Sign(n) == IF n > 0 THEN 1 ELSE IF n < 0 THEN -1 ELSE 0

\* a / b in float64: 0/0, inf/inf and anything with NaN are NaN, x/0 is an
\* infinity of the sign of x (numpy warns, it does not raise).
TrueDivide(a, b) ==
    IF a.k = "nan" \/ b.k = "nan" THEN RNaN
    ELSE IF a.k = "inf" THEN
        IF b.k = "inf" THEN RNaN
        ELSE RInf(IF b.n < 0 THEN -a.n ELSE a.n)
    ELSE IF b.k = "inf" THEN Rat(0, 1)
    ELSE IF b.n = 0 THEN (IF a.n = 0 THEN RNaN ELSE RInf(Sign(a.n)))
    ELSE Rat(Sign(b.n) * a.n * b.d, Sign(b.n) * a.d * b.n)

\* 1 - r in float64.
OneMinus(r) ==
    IF r.k = "nan" THEN RNaN
    ELSE IF r.k = "inf" THEN RInf(-r.n)
    ELSE Rat(r.d - r.n, r.d)

RECURSIVE SqrtSearch(_, _, _)
SqrtSearch(x, lo, hi) ==
    IF lo >= hi THEN lo
    ELSE LET mid == (lo + hi + 1) \div 2
         IN IF mid * mid <= x THEN SqrtSearch(x, mid, hi)
            ELSE SqrtSearch(x, lo, mid - 1)

\* np.sqrt of a sum of squares of half units, in thousandths of a half unit.
sqrt(x) == SqrtSearch(x * 1000 * 1000, 0, 46340)

\* scipy.stats.norm.ppf on (0, 1/2]: the magnitude, in thousandths, by linear
\* interpolation in a table of the standard normal quantiles.
PpfKnots == << <<1, 3090>>, <<5, 2576>>, <<10, 2326>>, <<25, 1960>>,
               <<50, 1645>>, <<100, 1282>>, <<150, 1036>>, <<200, 842>>,
               <<250, 674>>, <<300, 524>>, <<350, 385>>, <<400, 253>>,
               <<450, 126>>, <<500, 0>> >>

PpfTail(n, d) ==
    LET m == (1000 * n) \div d
    IN IF m < PpfKnots[1][1] THEN PpfKnots[1][2]
       ELSE IF m >= PpfKnots[Len(PpfKnots)][1] THEN 0
       ELSE LET i == CHOOSE i \in 1..(Len(PpfKnots) - 1) :
                        PpfKnots[i][1] <= m /\ m < PpfKnots[i + 1][1]
                lo == PpfKnots[i]
                hi == PpfKnots[i + 1]
            IN lo[2] - ((lo[2] - hi[2]) * (m - lo[1])) \div (hi[1] - lo[1])

\* scipy.stats.norm.ppf: NaN outside [0, 1], -inf at 0, +inf at 1.
norm_ppf(q) ==
    IF q.k # "fin" THEN NaN
    ELSE IF q.n < 0 \/ q.n > q.d THEN NaN
    ELSE IF q.n = 0 THEN NInf
    ELSE IF q.n = q.d THEN PInf
    ELSE IF 2 * q.n <= q.d THEN Fin(-PpfTail(q.n, q.d))
    ELSE Fin(PpfTail(q.d - q.n, q.d))

\* One unit of a protection level, in the unit y is kept in.
Unit == 2 * 1000 * 1000

\* np.round on one element: to the nearest integer, ties to the even one;
\* infinities stay.
round(x) ==
    IF x.k # "fin" THEN x
    ELSE LET q == x.v \div Unit
             r == x.v % Unit
         IN IF 2 * r < Unit THEN Fin(q)
            ELSE IF 2 * r > Unit THEN Fin(q + 1)
            ELSE IF q % 2 = 0 THEN Fin(q) ELSE Fin(q + 1)

-----------------------------------------------------------------------------
(* numpy arrays *)

Min(a, b) == IF a <= b THEN a ELSE b

\* a[:n]
Take(a, n) == SubSeq(a, 1, Min(n, Len(a)))

\* a[:-1]
DropLast(a) == SubSeq(a, 1, Len(a) - 1)

RECURSIVE Sum(_)
Sum(a) == IF a = <<>> THEN 0 ELSE a[1] + Sum(Tail(a))

\* a.cumsum()
cumsum(a) == [i \in 1..Len(a) |-> Sum(Take(a, i))]

\* np.zeros(n), as floats
zeros(n) == [i \in 1..n |-> Fin(0)]

\* a * b with numpy's broadcasting of one-dimensional arrays: equal lengths
\* multiply element by element, a length-1 operand is stretched, anything else
\* raises ValueError.
Multiply(a, b) ==
    IF Len(a) = Len(b)
    THEN [ok |-> TRUE, v |-> [i \in 1..Len(a) |-> a[i] * b[i]]]
    ELSE IF Len(a) = 1
    THEN [ok |-> TRUE, v |-> [i \in 1..Len(b) |-> a[1] * b[i]]]
    ELSE IF Len(b) = 1
    THEN [ok |-> TRUE, v |-> [i \in 1..Len(a) |-> a[i] * b[1]]]
    ELSE [ok |-> FALSE, v |-> <<>>]

\* The optional argument sigmas.
None == [none |-> TRUE, arr |-> <<>>]
Some(a) == [none |-> FALSE, arr |-> a]

-----------------------------------------------------------------------------
(* EMSRb *)

\* sigmas is None or np.all(sigmas == 0)
Deterministic(sigmas_) ==
    sigmas_.none \/ \A i \in 1..Len(sigmas_.arr) : sigmas_.arr[i] = 0

\* S_j = demands[:j].sum(), half units
S_j(demands_, j) == Sum(Take(demands_, j))

\* the product demands[:j]*fares[:j] raises
Raises(fares_, demands_, j) ==
    ~Multiply(Take(demands_, j), Take(fares_, j)).ok

\* p_j_bar with the empty-demand division guarded by the top fare.
p_j_bar_TopFare(fares_, demands_, j) ==
    IF S_j(demands_, j) = 0 THEN Rat(fares_[1], 1)
    ELSE TrueDivide(Rat(Sum(Multiply(Take(demands_, j), Take(fares_, j)).v), 1),
                    Rat(S_j(demands_, j), 1))

\* p_j_bar = np.sum(demands[:j]*fares[:j]) / demands[:j].sum()   (eq. 2.13)
p_j_bar(fares_, demands_, j) ==
    TrueDivide(Rat(Sum(Multiply(Take(demands_, j), Take(fares_, j)).v), 1),
               Rat(S_j(demands_, j), 1))

\* z_alpha = norm.ppf(1 - p_j_plus_1 / p_j_bar), p_j_plus_1 = fares[j]
z_alpha(fares_, demands_, j) ==
    norm_ppf(OneMinus(TrueDivide(Rat(fares_[j + 1], 1),
                                 p_j_bar(fares_, demands_, j))))

\* sigma = np.sqrt(np.sum(sigmas[:j]**2))
SumSquares(a) == Sum([i \in 1..Len(a) |-> a[i] * a[i]])
\* sigma as the sum of the standard deviations, not the root of the variances.
sigmaSum(sigmas_, j) == 1000 * Sum(Take(sigmas_.arr, j))

sigma(sigmas_, j) == sqrt(SumSquares(Take(sigmas_.arr, j)))

\* mu + z_alpha*sigma in float64: inf * 0 and anything with NaN are NaN.
MuPlus(mu, z, sg) ==
    IF z.k = "nan" THEN NaN
    ELSE IF z.k = "inf" THEN (IF sg = 0 THEN NaN ELSE z)
    ELSE Fin(mu * (Unit \div 2) + z.v * sg)

\* y[j-1] = mu + z_alpha*sigma, mu = S_j
y_j(fares_, demands_, sigmas_, j) ==
    MuPlus(S_j(demands_, j), z_alpha(fares_, demands_, j), sigma(sigmas_, j))

\* Only y[np.isnan(y)] = 0.
ClampNaNOnly(x) == IF x.k = "nan" THEN Fin(0) ELSE x

\* Only y[y < 0] = 0.
ClampNegativeOnly(x) ==
    IF (x.k = "inf" /\ x.v < 0) \/ (x.k = "fin" /\ x.v < 0) THEN Fin(0) ELSE x

\* y[y < 0] = 0 ; y[np.isnan(y)] = 0
Clamp(x) ==
    IF x.k = "nan" THEN Fin(0)
    ELSE IF (x.k = "inf" /\ x.v < 0) \/ (x.k = "fin" /\ x.v < 0) THEN Fin(0)
    ELSE x

\* y = demands.cumsum()[1:], the sum including the class itself.
DeterministicLevelsInclusive(demands_) ==
    LET c == Tail(cumsum(demands_))
    IN [i \in 1..Len(c) |-> Fin(c[i] * (Unit \div 2))]

\* y = demands[:-1], the cumulative sum forgotten.
DeterministicLevelsNoCumsum(demands_) ==
    LET c == DropLast(demands_)
    IN [i \in 1..Len(c) |-> Fin(c[i] * (Unit \div 2))]

\* the deterministic branch: y = demands.cumsum()[:-1]
DeterministicLevels(demands_) ==
    LET c == DropLast(cumsum(demands_))
    IN [i \in 1..Len(c) |-> Fin(c[i] * (Unit \div 2))]

\* the conventional branch: the loop over j, then the two clamps
GaussianLevels(fares_, demands_, sigmas_) ==
    [j \in 1..(Len(fares_) - 1) |-> Clamp(y_j(fares_, demands_, sigmas_, j))]

\* np.hstack((np.round(y), 0)), the zero at the wrong end.
StackZeroLast(y) == [i \in 1..Len(y) |-> round(y[i])] \o <<Fin(0)>>

\* np.hstack((0, np.round(y)))
Stack(y) == <<Fin(0)>> \o [i \in 1..Len(y) |-> round(y[i])]

Ok(v) == [status |-> "ok", value |-> v]
Raise(e) == [status |-> e, value |-> <<>>]

EMSRb(fares_, demands_, sigmas_) ==
    IF Deterministic(sigmas_)
    THEN Ok(Stack(DeterministicLevels(demands_)))
    ELSE IF \E j \in 1..(Len(fares_) - 1) : Raises(fares_, demands_, j)
    THEN Raise("ValueError")
    ELSE Ok(Stack(GaussianLevels(fares_, demands_, sigmas_)))

-----------------------------------------------------------------------------
(* EMSRb_MR *)

\* np.where over a vector without NaN (the fares as given): every index.
efficient_indices_All(adjusted_fares_) ==
    [i \in 1..Len(adjusted_fares_) |-> i]

\* np.where(~np.isnan(adjusted_fares))[0]: the indices in increasing order
efficient_indices(adjusted_fares_) ==
    LET idx == [i \in 1..Len(adjusted_fares_) |-> i]
        Efficient(i) == ~isnan(adjusted_fares_[i])
    IN SelectSeq(idx, Efficient)

\* a[indices] for an array of finite floats, as the numbers EMSRb takes
Gather(a, indices) == [k \in 1..Len(indices) |-> a[indices[k]].v]

\* sigmas[indices]
GatherSigmas(a, indices) == [k \in 1..Len(indices) |-> a[indices[k]]]

\* helpers.fill_nan(shape, indices, values): values at the indices and the
\* fill value, zero, elsewhere.
fill_nan(shape, indices, values) ==
    [i \in 1..shape |->
        IF \E k \in 1..Len(indices) : indices[k] = i
        THEN values[CHOOSE k \in 1..Len(indices) : indices[k] = i]
        ELSE Fin(0)]

\* if sigmas is None: sigmas = np.zeros(fares.shape)
DefaultSigmas(fares_, sigmas_) ==
    IF sigmas_.none THEN [i \in 1..Len(fares_) |-> 0] ELSE sigmas_.arr

\* EMSRb on the efficient strategies with the sigmas of all the classes.
protection_levels_AllSigmas(adjusted_fares_, adjusted_demand_, sigmas_) ==
    LET e == efficient_indices(adjusted_fares_)
    IN EMSRb(Gather(adjusted_fares_, e), Gather(adjusted_demand_, e),
             Some(sigmas_))

\* The call of EMSRb on the efficient strategies.
protection_levels_(adjusted_fares_, adjusted_demand_, sigmas_) ==
    LET e == efficient_indices(adjusted_fares_)
    IN EMSRb(Gather(adjusted_fares_, e), Gather(adjusted_demand_, e),
             Some(GatherSigmas(sigmas_, e)))

\* The body of EMSRb_MR after the fare transformation has answered with
\* adjusted_fares_ and adjusted_demand_.  calls counts the calls of EMSRb.
EMSRb_MR(fares_, sigmas_, adjusted_fares_, adjusted_demand_) ==
    LET s == DefaultSigmas(fares_, sigmas_)
        e == efficient_indices(adjusted_fares_)
    IN IF Len(e) > 0
       THEN IF \E k \in 1..Len(e) : e[k] > Len(s)
            THEN [res |-> Raise("IndexError"), calls |-> 0]
            ELSE LET r == protection_levels_(adjusted_fares_, adjusted_demand_, s)
                 IN [res |-> IF r.status = "ok"
                             THEN Ok(fill_nan(Len(fares_), e, r.value))
                             ELSE r,
                     calls |-> 1]
       ELSE [res |-> Ok(zeros(Len(fares_))), calls |-> 0]

\* faretransformation.fare_transformation(fares, demands, cap): two vectors of
\* the length of the input.  An inefficient class is NaN in both; an efficient
\* class keeps its fare and demand or carries re-scaled ones (a lower marginal
\* fare, a pooled demand).  Which classes are efficient is the transformation's
\* business: every answer of this shape is possible.
AdjustedPairs(f, d) ==
    {<<NaN, NaN>>, <<Fin(f), Fin(d)>>,
     <<Fin(IF f > 0 THEN f - 1 ELSE 0), Fin(d + 1)>>}

fare_transformation(fares_, demands_, cap_) ==
    {<<[i \in 1..Len(fares_) |-> t[i][1]], [i \in 1..Len(fares_) |-> t[i][2]]>> :
        t \in {u \in [1..Len(fares_) -> UNION {AdjustedPairs(fares_[i], demands_[i]) :
                                                  i \in 1..Len(fares_)}] :
                  \A i \in 1..Len(fares_) : u[i] \in AdjustedPairs(fares_[i], demands_[i])}}

-----------------------------------------------------------------------------
(* The callers. *)

NonIncreasing(f) == \A i \in 1..(Len(f) - 1) : f[i] >= f[i + 1]
Decreasing(f) == \A i \in 1..(Len(f) - 1) : f[i] > f[i + 1]

\* the price points of the fare classes
FareValues == {0, 1, MaxFare}

\* fare vectors in decreasing order, as the docstring of EMSRb requires
FareVectors(n) == {f \in [1..n -> FareValues] : NonIncreasing(f)}

SigmaVectors(n) == {None} \cup {Some(s) : s \in [1..n -> {0, MaxSigma}]}

\* A direct call of EMSRb with vectors of one length.
InitEMSRb ==
    /\ fn = "EMSRb"
    /\ \E n \in 1..MaxN :
          /\ fares \in FareVectors(n)
          /\ demands \in [1..n -> 0..MaxDemand]
          /\ sigmas \in SigmaVectors(n)
    /\ cap = None

\* A call of EMSRb_MR with vectors of one length and distinct fares.
InitEMSRb_MR ==
    /\ fn = "EMSRb_MR"
    /\ \E n \in 1..MaxN :
          /\ fares \in {f \in FareVectors(n) : Decreasing(f)}
          /\ demands \in [1..n -> (MaxDemand - 1)..MaxDemand]
          /\ sigmas \in SigmaVectors(n)
    /\ cap \in {None, Some(<<MaxDemand>>)}

\* A direct call of EMSRb with vectors of any lengths: nothing in the source
\* checks that fares, demands and sigmas have one length.
InitAnyShape ==
    /\ fn = "EMSRb"
    /\ \E nf \in 1..MaxN : fares \in FareVectors(nf)
    /\ \E nd \in 1..MaxN : demands \in [1..nd -> (MaxDemand - 1)..MaxDemand]
    /\ \E ns \in 1..MaxN : sigmas \in SigmaVectors(ns)
    /\ cap = None

Start ==
    /\ pc = "call"
    /\ adjusted_fares = <<>>
    /\ adjusted_demand = <<>>
    /\ emsrb_calls = 0
    /\ result = Ok(<<>>)

Init == Start /\ (InitEMSRb \/ InitEMSRb_MR)

InitShape == Start /\ InitAnyShape

CallEMSRb ==
    /\ pc = "call"
    /\ fn = "EMSRb"
    /\ result' = EMSRb(fares, demands, sigmas)
    /\ emsrb_calls' = 1
    /\ pc' = "done"
    /\ UNCHANGED <<fn, fares, demands, sigmas, cap, adjusted_fares, adjusted_demand>>

CallEMSRb_MR ==
    /\ pc = "call"
    /\ fn = "EMSRb_MR"
    /\ \E t \in fare_transformation(fares, demands, cap) :
          LET r == EMSRb_MR(fares, sigmas, t[1], t[2])
          IN /\ adjusted_fares' = t[1]
             /\ adjusted_demand' = t[2]
             /\ result' = r.res
             /\ emsrb_calls' = r.calls
    /\ pc' = "done"
    /\ UNCHANGED <<fn, fares, demands, sigmas, cap>>

Next == CallEMSRb \/ CallEMSRb_MR

Spec == Init /\ [][Next]_vars

\* Direct calls of EMSRb with vectors of any lengths.
NextShape == CallEMSRb

SpecShape == InitShape /\ [][NextShape]_vars

-----------------------------------------------------------------------------
(* Properties.  Index j of the source is element j + 1 here. *)

N == Len(fares)

\* the call was a direct call of EMSRb, and has returned or raised
Direct == pc = "done" /\ fn = "EMSRb"

\* the call was a call of EMSRb_MR, and has returned or raised
ViaMR == pc = "done" /\ fn = "EMSRb_MR"

\* sigmas given and not all zero
GaussianMode == ~sigmas.none /\ \E i \in 1..Len(sigmas.arr) : sigmas.arr[i] # 0

\* demands[0] + ... + demands[j-1], half units
PrefixDemand(j) == Sum(SubSeq(demands, 1, j))

\* h half units rounded to whole units: the nearest integer, the even one of
\* the two nearest at a tie.
RoundedHalves(h) ==
    CHOOSE n \in 0..h : (2 * n - h) \in {-1, 0, 1} /\ (2 * n # h => n % 2 = 0)

\* C1: in deterministic mode (sigmas None or all zero) EMSRb returns N
\* elements, element j, for j in 1..N-1, being the rounded sum of
\* demands[0..j-1]; the fares play no role in the result.
C1_DeterministicCumulative ==
    (Direct /\ ~GaussianMode) =>
        /\ result.status = "ok"
        /\ Len(result.value) = N
        /\ \A j \in 1..(N - 1) :
              result.value[j + 1] = Fin(RoundedHalves(PrefixDemand(j)))
        /\ \A f \in FareVectors(N) : EMSRb(f, demands, sigmas) = result

\* A deterministic call with an all-zero sigma vector whose two levels are
\* both ties: 0.5 rounds to 0 and 1.5 to 2.
C1_Witness ==
    /\ Direct /\ ~sigmas.none /\ ~GaussianMode
    /\ demands = <<1, 2, 1>>
    /\ result.value = <<Fin(0), Fin(0), Fin(2)>>

\* C2: element 0 of the output is exactly 0, for EMSRb in both modes and for
\* EMSRb_MR whatever the efficient classes are.
C2_TopClassUnprotected ==
    (pc = "done" /\ result.status = "ok") =>
        Len(result.value) >= 1 /\ result.value[1] = Fin(0)

\* EMSRb_MR with class 0 inefficient and a lower class protected.
C2_Witness ==
    /\ ViaMR /\ N = 3
    /\ isnan(adjusted_fares[1])
    /\ result.value[1] = Fin(0)
    /\ result.value[3] # Fin(0)

NonNegative(x) == (x.k = "fin" /\ x.v >= 0) \/ (x.k = "inf" /\ x.v > 0)

\* the level of boundary j before the clamps is negative
NegativeLevel(j) ==
    LET y == y_j(fares, demands, sigmas, j)
    IN (y.k = "fin" /\ y.v < 0) \/ (y.k = "inf" /\ y.v < 0)

\* C3: every element of the output of EMSRb is a number (not NaN) and >= 0, in
\* both branches; in the Gaussian branch a level that is negative before
\* rounding comes out as 0.
C3_NonNegative ==
    Direct =>
        /\ result.status = "ok"
        /\ \A i \in 1..Len(result.value) : NonNegative(result.value[i])
        /\ GaussianMode =>
              \A j \in 1..(N - 1) : NegativeLevel(j) => result.value[j + 1] = Fin(0)

\* A Gaussian call whose second boundary is finite and negative before the
\* clamp, and 0 in the output.
C3_Witness ==
    /\ Direct /\ GaussianMode /\ N = 3
    /\ y_j(fares, demands, sigmas, 2).k = "fin"
    /\ y_j(fares, demands, sigmas, 2).v < 0
    /\ result.value[3] = Fin(0)

\* the indices whose adjusted fare is not NaN
EfficientSet == {i \in 1..Len(adjusted_fares) : adjusted_fares[i].k # "nan"}

\* the k-th smallest efficient index
KthEfficient(k) ==
    CHOOSE i \in EfficientSet : Cardinality({m \in EfficientSet : m < i}) = k - 1

\* EMSRb on the adjusted fares, adjusted demands and sigmas at the efficient
\* indices, in their original order
SubResult ==
    LET n == Cardinality(EfficientSet)
    IN EMSRb([k \in 1..n |-> adjusted_fares[KthEfficient(k)].v],
             [k \in 1..n |-> adjusted_demand[KthEfficient(k)].v],
             Some([k \in 1..n |-> IF sigmas.none THEN 0
                                  ELSE sigmas.arr[KthEfficient(k)]]))

\* C4: with a non-empty efficient set E, EMSRb_MR returns N elements: at the
\* k-th smallest index of E element k of EMSRb on the vectors gathered at E, and
\* 0 at every index outside E; with every class efficient the output is that of
\* EMSRb on the adjusted vectors.
C4_ReexpansionPlacement ==
    (ViaMR /\ EfficientSet # {}) =>
        /\ result.status = "ok"
        /\ Len(result.value) = N
        /\ \A k \in 1..Cardinality(EfficientSet) :
              result.value[KthEfficient(k)] = SubResult.value[k]
        /\ \A i \in (1..N) \ EfficientSet : result.value[i] = Fin(0)
        /\ EfficientSet = 1..N => result = SubResult

\* Classes 0 and 2 of three efficient, with sigma only on the inefficient
\* class 1: the level computed for class 2 lands on index 2, index 1 is 0.
C4_Witness ==
    /\ ViaMR /\ N = 3 /\ EfficientSet = {1, 3}
    /\ ~sigmas.none /\ sigmas.arr[2] # 0
    /\ result.value[2] = Fin(0)
    /\ result.value[3] # Fin(0)
    /\ result.value[3] = SubResult.value[2]

\* C5: with every class inefficient EMSRb_MR returns N zeros, without calling
\* EMSRb and without an error, whatever sigmas and cap are.
C5_AllInefficient ==
    (ViaMR /\ EfficientSet = {}) =>
        /\ result = Ok([i \in 1..N |-> Fin(0)])
        /\ emsrb_calls = 0

\* Three classes, all inefficient, with non-zero sigmas and a cap.
C5_Witness ==
    /\ ViaMR /\ N = 3 /\ EfficientSet = {}
    /\ GaussianMode /\ ~cap.none
    /\ result.value = <<Fin(0), Fin(0), Fin(0)>>

\* C6: in Gaussian mode a boundary j whose prefix demands[0..j-1] sums to 0 has
\* output 0: the undefined ratio reaches the result neither as NaN nor as an
\* error.
C6_GaussianZeroPrefix ==
    (Direct /\ GaussianMode) =>
        /\ result.status = "ok"
        /\ \A j \in 1..(N - 1) : PrefixDemand(j) = 0 => result.value[j + 1] = Fin(0)

\* A Gaussian call with no demand for class 0 and uncertainty on it: boundary 1
\* is the NaN turned 0, boundary 2 is protected.
C6_Witness ==
    /\ Direct /\ GaussianMode /\ N = 3
    /\ demands[1] = 0 /\ sigmas.arr[1] # 0
    /\ isnan(y_j(fares, demands, sigmas, 1))
    /\ result.value[2] = Fin(0)
    /\ result.value[3] # Fin(0)

SameShape ==
    /\ Len(demands) = Len(fares)
    /\ sigmas.none \/ Len(sigmas.arr) = Len(fares)

\* C7: a call whose fares, demands and sigmas do not have one length fails with
\* an invalid-input signal and returns no protection levels.
C7_ShapeMismatchFails ==
    (pc = "done" /\ ~SameShape) => result.status # "ok"

\* C8, as stated: a boundary j with a zero demand anywhere in its prefix
\* 0..j-1 has output 0.
C8_AnyZeroInPrefix ==
    (Direct /\ result.status = "ok") =>
        \A j \in 1..(N - 1) :
            (\E i \in 1..j : demands[i] = 0) => result.value[j + 1] = Fin(0)

\* C8, amended: a boundary j all of whose prefix classes 0..j-1 have demand 0
\* has output 0, in both modes, and no error is raised.
C8_AllZeroPrefix ==
    Direct =>
        /\ result.status = "ok"
        /\ \A j \in 1..(N - 1) :
              (\A i \in 1..j : demands[i] = 0) => result.value[j + 1] = Fin(0)

\* A deterministic call with no demand for class 0: boundary 1 is 0, boundary 2,
\* with the zero in its prefix, is not.
C8_Witness ==
    /\ Direct /\ ~GaussianMode /\ N = 3
    /\ demands[1] = 0 /\ demands[2] = 2
    /\ result.value = <<Fin(0), Fin(0), Fin(1)>>

Max(a, b) == IF a >= b THEN a ELSE b

\* round(max(0, S_j + z_j * sigma_j)), 0 where the expression is NaN
ClosedForm(j) ==
    LET S == Sum(SubSeq(demands, 1, j))
        W == Sum([i \in 1..j |-> demands[i] * fares[i]])
        var == Sum([i \in 1..j |-> sigmas.arr[i] * sigmas.arr[i]])
        pbar == TrueDivide(Rat(W, 1), Rat(S, 1))
        z == norm_ppf(OneMinus(TrueDivide(Rat(fares[j + 1], 1), pbar)))
        v == MuPlus(S, z, sqrt(var))
    IN IF v.k = "nan" THEN Fin(0)
       ELSE IF v.k = "inf" THEN (IF v.v > 0 THEN PInf ELSE Fin(0))
       ELSE round(Fin(Max(0, v.v)))

\* C9: in Gaussian mode element j of the output, for j in 1..N-1, is
\* round(max(0, S_j + z_j * sigma_j)) with S_j the sum of demands[0..j-1],
\* sigma_j the root of the sum of sigmas[0..j-1]^2, z_j the inverse normal CDF
\* at 1 - fares[j] / p_bar_j and p_bar_j = sum(demands*fares over 0..j-1) / S_j;
\* where the expression is not a number the element is 0.
C9_GaussianClosedForm ==
    (Direct /\ GaussianMode) =>
        /\ result.status = "ok"
        /\ Len(result.value) = N
        /\ \A j \in 1..(N - 1) : result.value[j + 1] = ClosedForm(j)

\* A Gaussian call whose second boundary is protected beyond the mean demand
\* of the classes above it, by a finite buffer over two pooled sigmas.
C9_Witness ==
    /\ Direct /\ GaussianMode /\ N = 3
    /\ sigmas.arr[1] # 0 /\ sigmas.arr[2] # 0
    /\ result.value[3].k = "fin"
    /\ 2 * result.value[3].v > PrefixDemand(2) + 1

\* C10: in deterministic mode the output of EMSRb is non-decreasing by index.
C10_DeterministicMonotone ==
    (Direct /\ ~GaussianMode /\ result.status = "ok") =>
        \A j \in 1..(Len(result.value) - 1) :
            result.value[j].v <= result.value[j + 1].v

\* A deterministic call with strictly growing levels.
C10_Witness ==
    /\ Direct /\ ~GaussianMode /\ N = 3
    /\ 0 < result.value[2].v
    /\ result.value[2].v < result.value[3].v

====
